---- MODULE Spec2Model ----
(***************************************************************************)
(* Model of the pyo effect classes of GuitarEffects: Flanger (flanger.py)  *)
(* and RingMod (RingMod.py).  One effect object is constructed by a script *)
(* (the __main__ section of its module) and then driven through its public *)
(* methods: setInput, the parameter setters, play, out and stop.           *)
(*                                                                         *)
(* Units.  depth, feedback and the LFO sine are in hundredths (0.75 is 75);*)
(* lfofreq is in hundredths of a Hertz; RingMod's freq is in Hertz; fade   *)
(* times are in milliseconds (0.05 s is 50); delay times are in            *)
(* nanoseconds (0.005 s is 5000000); dur and delay of play/out are in      *)
(* seconds.                                                                *)
(*                                                                         *)
(* "Playing" and "Stopped" are the lifecycle states of a node: Playing     *)
(* from the moment play()/out() was requested on it (or it was created)    *)
(* until stop() is called on it.  The dur and delay of the request are     *)
(* kept beside the state.                                                  *)
(***************************************************************************)
EXTENDS Integers, Sequences, FiniteSets

VARIABLES
    cls,        \* class of the constructed effect: "Flanger" or "RingMod"
    _input,     \* self._input
    _in_fader,  \* self._in_fader, the InputFader
    _depth,     \* Flanger: self._depth
    _lfofreq,   \* Flanger: self._lfofreq
    _feedback,  \* Flanger: self._feedback
    _modamp,    \* Flanger: self._modamp, a Sig
    _mod,       \* self._mod, a Sine
    _dls,       \* Flanger: self._dls, a Delay
    _flange,    \* Flanger: self._flange, an Interp
    _freq,      \* RingMod: self._freq
    _mul,       \* RingMod: self._mul
    _add,       \* RingMod: self._add
    _ring,      \* RingMod: self._ring, a Sig
    stream,     \* per node: lifecycle state, start count, dur, delay, dac
    calls,      \* calls made by the latest of play(), out() and stop(), in order
    given,      \* the constructor's arguments, and per attribute the arguments
                \* most recently given for it (<<>>: never given)
    blk,        \* Flanger: what the latest processed block read and produced
    pc,         \* control thread: "idle", or the line it is about to run
    local       \* control thread: <<x>> inside a setter called with x, else <<>>

vars == <<cls, _input, _in_fader, _depth, _lfofreq, _feedback, _modamp, _mod,
          _dls, _flange, _freq, _mul, _add, _ring, stream, calls, given, blk,
          pc, local>>

----------------------------------------------------------------------------
(* Bounds of the model. *)

MaxStarts == 2      \* play()/out() calls a node receives without a stop()
MaxChnls == 2       \* channels of an input
MaxLen == 2         \* length of a list given as freq, mul or add

(* Program constants. *)

DefaultDepth == 75
DefaultLfoFreq == 20
DefaultFeedback == 50
DocumentedFeedback == 25
DefaultFreq == 100
DefaultMul == 1
DefaultAdd == 0
DefaultFadetime == 50
ModampMul == 5000000
ModAdd == 5000000

None == "None"
NoInput == [name |-> "None", nchnls |-> 0]

----------------------------------------------------------------------------
(* Values the scripts and callers use. *)

Src == [name |-> "src", nchnls |-> 1]
Noise == [name |-> "noise", nchnls |-> 2]
ScriptInputs == {Src, Noise}
AllInputs == [name : {"src"}, nchnls : 1..MaxChnls]

DepthVals == {0, 75, 100}
LfoFreqVals == {10, 20}
FeedbackVals == {25, 50}
SineVals == {-100, 0, 100}
Fadetimes == {100}
PlayArgs == {<<0, 0>>, <<2, 1>>}     \* (dur, delay) of play() and out()
BlockMs == 50

(* A Python argument that is a number or a list of numbers. *)
Float(v) == [isList |-> FALSE, items |-> <<v>>]
List(s) == [isList |-> TRUE, items |-> s]

Lists(S, n) == UNION {[1..k -> S] : k \in 1..n}

\* Positional argument i of a call: <<v>> when given, <<>> when omitted.
Arg(args, i) == IF Len(args) >= i THEN <<args[i]>> ELSE <<>>

Max(a, b) == IF a >= b THEN a ELSE b
Min(a, b) == IF a <= b THEN a ELSE b

----------------------------------------------------------------------------
(* The pyo primitives the two classes are built from. *)

\* convertArgsToLists: a number becomes a one-element list, a list stays.
convertArgsToLists(x) == x.items

\* wrap(arg, i): element i of a list, cycling (i counts from 0).
wrap(arg, i) == arg[(i % Len(arg)) + 1]

\* The base objects of a node with n channels, as channel indices.
getBaseObjects(n) == [i \in 1..n |-> i]

\* InputFader(input): one crossfader channel per input channel.
InputFader(x) ==
    [input |-> x, old |-> NoInput, nchnls |-> x.nchnls, fadetime |-> 0, t |-> 0]

\* InputFader.setInput(x, fadetime): the former input fades out.
InputFaderSetInput(f, x, fadetime) ==
    [f EXCEPT !.old = f.input, !.input = x, !.fadetime = fadetime, !.t = 0]

\* One block of a crossfade; once complete the old input is released.
InputFaderProcess(f) ==
    LET t2 == Min(f.t + BlockMs, f.fadetime)
    IN  [f EXCEPT !.t = t2, !.old = IF t2 >= f.fadetime THEN NoInput ELSE @]

\* A node as created: processing, never started by a play() call.
NewStream ==
    [state |-> "Playing", starts |-> 0, dur |-> 0, delay |-> 0, dac |-> FALSE]

\* play(dur, delay) on node n.
NodePlay(s, n, dur, delay) ==
    [s EXCEPT ![n] = [state |-> "Playing", starts |-> @.starts + 1,
                      dur |-> dur, delay |-> delay, dac |-> FALSE]]

\* out(chnl, inc, dur, delay) on node n.
NodeOut(s, n, dur, delay) ==
    [s EXCEPT ![n] = [state |-> "Playing", starts |-> @.starts + 1,
                      dur |-> dur, delay |-> delay, dac |-> TRUE]]

\* stop() on node n.
NodeStop(s, n) ==
    [s EXCEPT ![n] = [state |-> "Stopped", starts |-> 0,
                      dur |-> 0, delay |-> 0, dac |-> FALSE]]

\* An entry of the call log.
Call(n, op, dur, delay) == [node |-> n, op |-> op, dur |-> dur, delay |-> delay]

\* Sig: value * mul of a running Sig, silence of a stopped one.
SigOut(sig, st) ==
    IF st.state = "Playing" THEN (sig.value * sig.mul) \div 100 ELSE 0

\* Sine: sine * mul + add of a running Sine, silence of a stopped one.
SineOut(sine, mulv, add, st) ==
    IF st.state = "Playing" THEN (sine * mulv) \div 100 + add ELSE 0

\* Sine(freq, mul): one oscillator per channel of the longest argument.
SineChnls(freq, mul) ==
    LET lmax == Max(Len(freq), Len(mul))
    IN  [i \in 1..lmax |-> [freq |-> wrap(freq, i - 1), mul |-> wrap(mul, i - 1)]]

\* Sine.setFreq(x): channel i takes element i of x, cycling.
SineSetFreq(chnls, x) ==
    [i \in 1..Len(chnls) |-> [chnls[i] EXCEPT !.freq = wrap(x, i - 1)]]

\* Sig(value, mul, add): one channel per element of the longest argument.
SigChnls(value, mul, add) ==
    LET lmax == Max(Len(value), Max(Len(mul), Len(add)))
    IN  [i \in 1..lmax |-> [value |-> wrap(value, i - 1),
                            mul |-> wrap(mul, i - 1), add |-> wrap(add, i - 1)]]

NoBlock == [pulled |-> FALSE, depth |-> 0, sine |-> 0, modamp |-> 0, delay |-> 0]

----------------------------------------------------------------------------
(* Flanger *)

FlangerNodes == {"_in_fader", "_modamp", "_mod", "_dls", "_flange"}

\* Flanger(input, depth, lfofreq, feedback), arguments given by position.
FlangerCtorArgs ==
    {<<Noise>>, <<Src, 100, 10>>, <<Noise, 0, 10, DocumentedFeedback>>}

\* self._modamp = Sig(depth, mul=0.005)
FlangerModamp(depth) == [value |-> depth, mul |-> ModampMul]

\* The same with the offset of the sweep left out.
FlangerMod_NoAdd(lfofreq) == [freq |-> lfofreq, mul |-> "_modamp", add |-> 0]

\* self._mod = Sine(freq=lfofreq, mul=self._modamp, add=0.005)
FlangerMod(lfofreq) == [freq |-> lfofreq, mul |-> "_modamp", add |-> ModAdd]

\* self._dls = Delay(in_fader, delay=self._mod, feedback=feedback)
FlangerDls(feedback) == [input |-> "_in_fader", delay |-> "_mod", feedback |-> feedback]

FlangerInit(args) ==
    LET input == args[1]
        depth == IF Len(args) >= 2 THEN args[2] ELSE DefaultDepth
        lfofreq == IF Len(args) >= 3 THEN args[3] ELSE DefaultLfoFreq
        feedback == IF Len(args) >= 4 THEN args[4] ELSE DefaultFeedback
    IN  /\ cls = "Flanger"
        /\ _input = input
        /\ _depth = depth
        /\ _lfofreq = lfofreq
        /\ _feedback = feedback
        /\ _in_fader = InputFader(input)
        /\ _modamp = FlangerModamp(depth)
        /\ _mod = FlangerMod(lfofreq)
        /\ _dls = FlangerDls(feedback)
        /\ _flange = [input |-> "_in_fader", input2 |-> "_dls"]
        /\ _freq = None /\ _mul = None /\ _add = None /\ _ring = None
        /\ stream = [n \in FlangerNodes |-> NewStream]
        /\ calls = <<>>
        /\ given = [init |-> args, input |-> <<>>, depth |-> Arg(args, 2),
                    lfofreq |-> Arg(args, 3), feedback |-> Arg(args, 4)]
        /\ blk = NoBlock
        /\ pc = "idle"
        /\ local = <<>>

\* setInput(x, fadetime=0.05); args is <<x>> or <<x, fadetime>>.
FlangerSetInput(args) ==
    LET x == args[1]
        fadetime == IF Len(args) >= 2 THEN args[2] ELSE DefaultFadetime
    IN  /\ cls = "Flanger" /\ pc = "idle"
        /\ _input' = x
        /\ _in_fader' = InputFaderSetInput(_in_fader, x, fadetime)
        /\ given' = [given EXCEPT !.input = args]
        /\ UNCHANGED <<cls, calls, _depth, _lfofreq, _feedback, _modamp, _mod, _dls,
                       _flange, _freq, _mul, _add, _ring, stream, blk, pc, local>>

\* The input property setter: self.setInput(x).
FlangerInputSetter(x) ==
    /\ FlangerSetInput(<<x>>)

FlangerSetDepth(x) ==
    /\ cls = "Flanger" /\ pc = "idle"
    /\ _depth' = x
    /\ _modamp' = [_modamp EXCEPT !.value = x]
    /\ given' = [given EXCEPT !.depth = <<x>>]
    /\ UNCHANGED <<cls, calls, _input, _in_fader, _lfofreq, _feedback, _mod, _dls,
                   _flange, _freq, _mul, _add, _ring, stream, blk, pc, local>>

FlangerSetLfoFreq(x) ==
    /\ cls = "Flanger" /\ pc = "idle"
    /\ _lfofreq' = x
    /\ _mod' = [_mod EXCEPT !.freq = x]
    /\ given' = [given EXCEPT !.lfofreq = <<x>>]
    /\ UNCHANGED <<cls, calls, _input, _in_fader, _depth, _feedback, _modamp, _dls,
                   _flange, _freq, _mul, _add, _ring, stream, blk, pc, local>>

\* The same writing the LFO's frequency, as setLfoFreq does.
FlangerSetFeedback_ModFreq(x) ==
    /\ cls = "Flanger" /\ pc = "idle"
    /\ _feedback' = x
    /\ _mod' = [_mod EXCEPT !.freq = x]
    /\ given' = [given EXCEPT !.feedback = <<x>>]
    /\ UNCHANGED <<cls, calls, _input, _in_fader, _depth, _lfofreq, _modamp, _dls,
                   _flange, _freq, _mul, _add, _ring, stream, blk, pc, local>>

FlangerSetFeedback(x) ==
    /\ cls = "Flanger" /\ pc = "idle"
    /\ _feedback' = x
    /\ _dls' = [_dls EXCEPT !.feedback = x]
    /\ given' = [given EXCEPT !.feedback = <<x>>]
    /\ UNCHANGED <<cls, calls, _input, _in_fader, _depth, _lfofreq, _modamp, _mod,
                   _flange, _freq, _mul, _add, _ring, stream, blk, pc, local>>

\* The property setters: self.setDepth(x), self.setLfoFreq(x), self.setFeedback(x).
FlangerDepthSetter(x) ==
    /\ FlangerSetDepth(x)

FlangerLfoFreqSetter(x) ==
    /\ FlangerSetLfoFreq(x)

FlangerFeedbackSetter(x) ==
    /\ FlangerSetFeedback(x)

CanStart == \A n \in DOMAIN stream : stream[n].starts < MaxStarts

\* The same with the delay line not started.
FlangerPlay_NoDls(dur, delay) ==
    /\ cls = "Flanger" /\ pc = "idle" /\ CanStart
    /\ stream' = NodePlay(NodePlay(NodePlay(stream,
                    "_modamp", dur, delay), "_mod", dur, delay),
                    "_flange", dur, delay)
    /\ calls' = <<Call("_modamp", "play", dur, delay), Call("_mod", "play", dur, delay),
                  Call("self", "play", dur, delay)>>
    /\ UNCHANGED <<cls, given, _input, _in_fader, _depth, _lfofreq, _feedback, _modamp,
                   _mod, _dls, _flange, _freq, _mul, _add, _ring, blk, pc, local>>

FlangerPlay(dur, delay) ==
    /\ cls = "Flanger" /\ pc = "idle" /\ CanStart
    /\ stream' = NodePlay(NodePlay(NodePlay(NodePlay(stream,
                    "_modamp", dur, delay), "_mod", dur, delay),
                    "_dls", dur, delay), "_flange", dur, delay)
    /\ calls' = <<Call("_modamp", "play", dur, delay), Call("_mod", "play", dur, delay),
                  Call("_dls", "play", dur, delay), Call("self", "play", dur, delay)>>
    /\ UNCHANGED <<cls, given, _input, _in_fader, _depth, _lfofreq, _feedback, _modamp,
                   _mod, _dls, _flange, _freq, _mul, _add, _ring, blk, pc, local>>

FlangerStop ==
    /\ cls = "Flanger" /\ pc = "idle"
    /\ stream' = NodeStop(NodeStop(NodeStop(NodeStop(stream,
                    "_modamp"), "_mod"), "_dls"), "_flange")
    /\ calls' = <<Call("_modamp", "stop", 0, 0), Call("_mod", "stop", 0, 0),
                  Call("_dls", "stop", 0, 0), Call("self", "stop", 0, 0)>>
    /\ UNCHANGED <<cls, given, _input, _in_fader, _depth, _lfofreq, _feedback, _modamp,
                   _mod, _dls, _flange, _freq, _mul, _add, _ring, blk, pc, local>>

FlangerOut(dur, delay) ==
    /\ cls = "Flanger" /\ pc = "idle" /\ CanStart
    /\ stream' = NodeOut(NodePlay(NodePlay(NodePlay(stream,
                    "_modamp", dur, delay), "_mod", dur, delay),
                    "_dls", dur, delay), "_flange", dur, delay)
    /\ calls' = <<Call("_modamp", "play", dur, delay), Call("_mod", "play", dur, delay),
                  Call("_dls", "play", dur, delay), Call("self", "out", dur, delay)>>
    /\ UNCHANGED <<cls, given, _input, _in_fader, _depth, _lfofreq, _feedback, _modamp,
                   _mod, _dls, _flange, _freq, _mul, _add, _ring, blk, pc, local>>

\* One processing block of the Flanger's graph, the LFO sine being at `sine`:
\* _modamp, then _mod (mul=_modamp, add=0.005), then _dls reading delay=_mod.
FlangerProcess(sine) ==
    LET modamp == SigOut(_modamp, stream["_modamp"])
        delay == SineOut(sine, modamp, _mod.add, stream["_mod"])
    IN  /\ cls = "Flanger"
        /\ _in_fader' = InputFaderProcess(_in_fader)
        /\ blk' = IF stream["_dls"].state = "Playing"
                  THEN [pulled |-> TRUE, depth |-> _modamp.value, sine |-> sine,
                        modamp |-> modamp, delay |-> delay]
                  ELSE NoBlock
        /\ UNCHANGED <<cls, _input, _depth, _lfofreq, _feedback, _modamp, _mod,
                       _dls, _flange, _freq, _mul, _add, _ring, stream, calls,
                       given, pc, local>>

----------------------------------------------------------------------------
(* RingMod *)

RingModNodes == {"_in_fader", "_mod", "_ring"}

FreqVals == {800, 1000}
FreqArgs == {Float(DefaultFreq), Float(800), List(<<800, 1000>>)}

\* RingMod(input, freq, mul, add), arguments given by position.
RingModCtorArgs ==
    {<<Src>>, <<Noise>>, <<Src, List(<<800, 1000>>)>>,
     <<Src, List(<<800, 1000>>), List(<<1, 1>>)>>,
     <<Noise, Float(800), Float(1), Float(0)>>}

\* Every construction within the bounds.
RingModCtorArgsAll ==
    {<<i, f, m, a>> : i \in AllInputs,
        f \in {Float(v) : v \in FreqVals} \cup {List(l) : l \in Lists(FreqVals, MaxLen)},
        m \in {Float(DefaultMul)} \cup {List(l) : l \in Lists({DefaultMul}, MaxLen)},
        a \in {Float(DefaultAdd)} \cup {List(l) : l \in Lists({DefaultAdd}, MaxLen)}}

\* The same with the oscillator not multiplied by the input channels.
RingModMod_NoInput(freq, in_fader) == [chnls |-> SineChnls(freq, <<1>>)]

\* self._mod = Sine(freq=freq, mul=in_fader)
RingModMod(freq, in_fader) == [chnls |-> SineChnls(freq, in_fader)]

\* self._ring = Sig(self._mod, mul=mul, add=add)
RingModRing(mod, mul, add) ==
    [chnls |-> SigChnls(getBaseObjects(Len(mod.chnls)), mul, add)]

RingModInit(args) ==
    LET input == args[1]
        freq == IF Len(args) >= 2 THEN args[2] ELSE Float(DefaultFreq)
        mul == IF Len(args) >= 3 THEN args[3] ELSE Float(DefaultMul)
        add == IF Len(args) >= 4 THEN args[4] ELSE Float(DefaultAdd)
        fader == InputFader(input)
        mod == RingModMod(convertArgsToLists(freq), getBaseObjects(fader.nchnls))
    IN  /\ cls = "RingMod"
        /\ _input = input
        /\ _freq = freq
        /\ _mul = mul
        /\ _add = add
        /\ _in_fader = fader
        /\ _mod = mod
        /\ _ring = RingModRing(mod, convertArgsToLists(mul), convertArgsToLists(add))
        /\ _depth = None /\ _lfofreq = None /\ _feedback = None
        /\ _modamp = None /\ _dls = None /\ _flange = None
        /\ stream = [n \in RingModNodes |-> NewStream]
        /\ calls = <<>>
        /\ given = [init |-> args, input |-> <<>>, freq |-> Arg(args, 2)]
        /\ blk = NoBlock
        /\ pc = "idle"
        /\ local = <<>>

\* The same with the fade time not handed on to the crossfader.
RingModSetInput_NoFadetime(args) ==
    LET x == args[1]
    IN  /\ cls = "RingMod" /\ pc = "idle"
        /\ _input' = x
        /\ _in_fader' = InputFaderSetInput(_in_fader, x, DefaultFadetime)
        /\ given' = [given EXCEPT !.input = args]
        /\ UNCHANGED <<cls, calls, _depth, _lfofreq, _feedback, _modamp, _mod, _dls,
                       _flange, _freq, _mul, _add, _ring, stream, blk, pc, local>>

\* setInput(x, fadetime=0.05); args is <<x>> or <<x, fadetime>>.
RingModSetInput(args) ==
    LET x == args[1]
        fadetime == IF Len(args) >= 2 THEN args[2] ELSE DefaultFadetime
    IN  /\ cls = "RingMod" /\ pc = "idle"
        /\ _input' = x
        /\ _in_fader' = InputFaderSetInput(_in_fader, x, fadetime)
        /\ given' = [given EXCEPT !.input = args]
        /\ UNCHANGED <<cls, calls, _depth, _lfofreq, _feedback, _modamp, _mod, _dls,
                       _flange, _freq, _mul, _add, _ring, stream, blk, pc, local>>

\* The input property setter: self.setInput(x).
RingModInputSetter(x) ==
    /\ RingModSetInput(<<x>>)

\* The same going through the crossfader, as setInput does.
RingModSetFreq_Fade(x) ==
    /\ cls = "RingMod" /\ pc = "idle"
    /\ _freq' = x
    /\ _mod' = [_mod EXCEPT !.chnls = SineSetFreq(@, convertArgsToLists(x))]
    /\ _in_fader' = InputFaderSetInput(_in_fader, _input, DefaultFadetime)
    /\ given' = [given EXCEPT !.freq = <<x>>]
    /\ UNCHANGED <<cls, calls, _input, _depth, _lfofreq, _feedback,
                   _modamp, _dls, _flange, _mul, _add, _ring, stream, blk, pc, local>>

RingModSetFreq(x) ==
    /\ cls = "RingMod" /\ pc = "idle"
    /\ _freq' = x
    /\ _mod' = [_mod EXCEPT !.chnls = SineSetFreq(@, convertArgsToLists(x))]
    /\ given' = [given EXCEPT !.freq = <<x>>]
    /\ UNCHANGED <<cls, calls, _input, _in_fader, _depth, _lfofreq, _feedback,
                   _modamp, _dls, _flange, _mul, _add, _ring, stream, blk, pc, local>>

\* The freq property setter: self.setFreq(x).
RingModFreqSetter(x) ==
    /\ RingModSetFreq(x)

RingModPlay(dur, delay) ==
    /\ cls = "RingMod" /\ pc = "idle" /\ CanStart
    /\ stream' = NodePlay(NodePlay(stream, "_mod", dur, delay), "_ring", dur, delay)
    /\ calls' = <<Call("_mod", "play", dur, delay), Call("self", "play", dur, delay)>>
    /\ UNCHANGED <<cls, given, _input, _in_fader, _depth, _lfofreq, _feedback, _modamp,
                   _mod, _dls, _flange, _freq, _mul, _add, _ring, blk, pc, local>>

RingModStop ==
    /\ cls = "RingMod" /\ pc = "idle"
    /\ stream' = NodeStop(NodeStop(stream, "_mod"), "_ring")
    /\ calls' = <<Call("_mod", "stop", 0, 0), Call("self", "stop", 0, 0)>>
    /\ UNCHANGED <<cls, given, _input, _in_fader, _depth, _lfofreq, _feedback, _modamp,
                   _mod, _dls, _flange, _freq, _mul, _add, _ring, blk, pc, local>>

RingModOut(dur, delay) ==
    /\ cls = "RingMod" /\ pc = "idle" /\ CanStart
    /\ stream' = NodeOut(NodePlay(stream, "_mod", dur, delay), "_ring", dur, delay)
    /\ calls' = <<Call("_mod", "play", dur, delay), Call("self", "out", dur, delay)>>
    /\ UNCHANGED <<cls, given, _input, _in_fader, _depth, _lfofreq, _feedback, _modamp,
                   _mod, _dls, _flange, _freq, _mul, _add, _ring, blk, pc, local>>

\* One processing block of the RingMod's graph: the crossfade advances.
RingModProcess ==
    /\ cls = "RingMod"
    /\ _in_fader' = InputFaderProcess(_in_fader)
    /\ UNCHANGED <<cls, _input, _depth, _lfofreq, _feedback, _modamp, _mod, _dls,
                   _flange, _freq, _mul, _add, _ring, stream, calls, given, blk,
                   pc, local>>

----------------------------------------------------------------------------
(* The effect driven one whole method call at a time. *)

Init ==
    \/ \E args \in FlangerCtorArgs : FlangerInit(args)
    \/ \E args \in RingModCtorArgs : RingModInit(args)

Next ==
    \/ \E x \in ScriptInputs, f \in Fadetimes : FlangerSetInput(<<x, f>>)
    \/ \E x \in ScriptInputs : FlangerInputSetter(x)
    \/ \E x \in DepthVals : FlangerSetDepth(x)
    \/ \E x \in LfoFreqVals : FlangerSetLfoFreq(x)
    \/ \E x \in FeedbackVals : FlangerSetFeedback(x)
    \/ \E x \in DepthVals : FlangerDepthSetter(x)
    \/ \E x \in LfoFreqVals : FlangerLfoFreqSetter(x)
    \/ \E x \in FeedbackVals : FlangerFeedbackSetter(x)
    \/ \E a \in PlayArgs : FlangerPlay(a[1], a[2])
    \/ FlangerStop
    \/ \E a \in PlayArgs : FlangerOut(a[1], a[2])
    \/ \E s \in SineVals : FlangerProcess(s)
    \/ \E x \in ScriptInputs, f \in Fadetimes : RingModSetInput(<<x, f>>)
    \/ \E x \in ScriptInputs : RingModInputSetter(x)
    \/ \E x \in FreqArgs : RingModSetFreq(x)
    \/ \E x \in FreqArgs : RingModFreqSetter(x)
    \/ \E a \in PlayArgs : RingModPlay(a[1], a[2])
    \/ RingModStop
    \/ \E a \in PlayArgs : RingModOut(a[1], a[2])
    \/ RingModProcess

Spec == Init /\ [][Next]_vars

----------------------------------------------------------------------------
(* RingMod constructed with every combination of channel counts and list     *)
(* lengths within the bounds, then given new frequencies and inputs.         *)

InitBroadcast == \E args \in RingModCtorArgsAll : RingModInit(args)

NextBroadcast ==
    \/ \E x \in {Float(v) : v \in FreqVals} \cup {List(l) : l \in Lists(FreqVals, MaxLen)} :
          RingModSetFreq(x)
    \/ \E x \in AllInputs : RingModInputSetter(x)

SpecBroadcast == InitBroadcast /\ [][NextBroadcast]_vars

----------------------------------------------------------------------------
(* The parameter setters run by a control thread one statement at a time,    *)
(* while the processing thread pulls blocks.  No lock is taken by a setter,  *)
(* so a block, or a reader of the attributes, may come between its two       *)
(* statements.                                                               *)

FlangerSetDepth_81(x) ==
    /\ cls = "Flanger" /\ pc = "idle"
    /\ _depth' = x
    /\ given' = [given EXCEPT !.depth = <<x>>]
    /\ pc' = "setDepth:82" /\ local' = <<x>>
    /\ UNCHANGED <<cls, calls, _input, _in_fader, _lfofreq, _feedback, _modamp, _mod,
                   _dls, _flange, _freq, _mul, _add, _ring, stream, blk>>

FlangerSetDepth_82 ==
    /\ pc = "setDepth:82"
    /\ _modamp' = [_modamp EXCEPT !.value = local[1]]
    /\ pc' = "idle" /\ local' = <<>>
    /\ UNCHANGED <<cls, calls, given, _input, _in_fader, _depth, _lfofreq, _feedback,
                   _mod, _dls, _flange, _freq, _mul, _add, _ring, stream, blk>>

FlangerSetLfoFreq_94(x) ==
    /\ cls = "Flanger" /\ pc = "idle"
    /\ _lfofreq' = x
    /\ given' = [given EXCEPT !.lfofreq = <<x>>]
    /\ pc' = "setLfoFreq:95" /\ local' = <<x>>
    /\ UNCHANGED <<cls, calls, _input, _in_fader, _depth, _feedback, _modamp, _mod,
                   _dls, _flange, _freq, _mul, _add, _ring, stream, blk>>

FlangerSetLfoFreq_95 ==
    /\ pc = "setLfoFreq:95"
    /\ _mod' = [_mod EXCEPT !.freq = local[1]]
    /\ pc' = "idle" /\ local' = <<>>
    /\ UNCHANGED <<cls, calls, given, _input, _in_fader, _depth, _lfofreq, _feedback,
                   _modamp, _dls, _flange, _freq, _mul, _add, _ring, stream, blk>>

FlangerSetFeedback_107(x) ==
    /\ cls = "Flanger" /\ pc = "idle"
    /\ _feedback' = x
    /\ given' = [given EXCEPT !.feedback = <<x>>]
    /\ pc' = "setFeedback:108" /\ local' = <<x>>
    /\ UNCHANGED <<cls, calls, _input, _in_fader, _depth, _lfofreq, _modamp, _mod,
                   _dls, _flange, _freq, _mul, _add, _ring, stream, blk>>

FlangerSetFeedback_108 ==
    /\ pc = "setFeedback:108"
    /\ _dls' = [_dls EXCEPT !.feedback = local[1]]
    /\ pc' = "idle" /\ local' = <<>>
    /\ UNCHANGED <<cls, calls, given, _input, _in_fader, _depth, _lfofreq, _feedback,
                   _modamp, _mod, _flange, _freq, _mul, _add, _ring, stream, blk>>

RingModSetFreq_64(x) ==
    /\ cls = "RingMod" /\ pc = "idle"
    /\ _freq' = x
    /\ given' = [given EXCEPT !.freq = <<x>>]
    /\ pc' = "setFreq:65" /\ local' = <<x>>
    /\ UNCHANGED <<cls, calls, _input, _in_fader, _depth, _lfofreq, _feedback, _modamp,
                   _mod, _dls, _flange, _mul, _add, _ring, stream, blk>>

RingModSetFreq_65 ==
    /\ pc = "setFreq:65"
    /\ _mod' = [_mod EXCEPT !.chnls = SineSetFreq(@, convertArgsToLists(local[1]))]
    /\ pc' = "idle" /\ local' = <<>>
    /\ UNCHANGED <<cls, calls, given, _input, _in_fader, _depth, _lfofreq, _feedback,
                   _modamp, _dls, _flange, _freq, _mul, _add, _ring, stream, blk>>

NextThreads ==
    \/ \E x \in DepthVals : FlangerSetDepth_81(x)
    \/ FlangerSetDepth_82
    \/ \E x \in LfoFreqVals : FlangerSetLfoFreq_94(x)
    \/ FlangerSetLfoFreq_95
    \/ \E x \in FeedbackVals : FlangerSetFeedback_107(x)
    \/ FlangerSetFeedback_108
    \/ \E x \in FreqArgs : RingModSetFreq_64(x)
    \/ RingModSetFreq_65
    \/ \E s \in SineVals : FlangerProcess(s)
    \/ RingModProcess
    \/ \E x \in ScriptInputs : RingModInputSetter(x)

SpecThreads == Init /\ [][NextThreads]_vars

----------------------------------------------------------------------------
(* Properties *)

LastCall == calls[Len(calls)]
Started == calls # <<>> /\ LastCall.op \in {"play", "out"}
StoppedLast == calls # <<>> /\ LastCall.op = "stop"
ChildrenStarted == IF cls = "Flanger" THEN <<"_modamp", "_mod", "_dls">> ELSE <<"_mod">>
SelfNode == IF cls = "Flanger" THEN "_flange" ELSE "_ring"
StoppedStream ==
    [state |-> "Stopped", starts |-> 0, dur |-> 0, delay |-> 0, dac |-> FALSE]

\* C1: once play() or out() has returned, the calls it made are play(dur, delay)
\* on each child in construction order (_modamp, _mod, _dls for Flanger, _mod
\* for RingMod), then play/out on the node itself with the same dur and delay,
\* and the node and every owned child are Playing.
C1_StartCascade ==
    Started =>
        /\ Len(calls) = Len(ChildrenStarted) + 1
        /\ \A i \in 1..Len(ChildrenStarted) :
              /\ calls[i].node = ChildrenStarted[i]
              /\ calls[i].op = "play"
              /\ calls[i].dur = LastCall.dur /\ calls[i].delay = LastCall.delay
              /\ stream[ChildrenStarted[i]].dur = LastCall.dur
              /\ stream[ChildrenStarted[i]].delay = LastCall.delay
        /\ LastCall.node = "self"
        /\ stream[SelfNode].dur = LastCall.dur
        /\ stream[SelfNode].delay = LastCall.delay
        /\ stream[SelfNode].dac = (LastCall.op = "out")
        /\ \A n \in DOMAIN stream : stream[n].state = "Playing"

\* C1 witness: a Flanger sent to the output for 2 seconds after 1 second.
C1_Witness ==
    /\ cls = "Flanger" /\ Started /\ LastCall.op = "out"
    /\ LastCall.dur = 2 /\ LastCall.delay = 1
    /\ stream["_dls"].starts = 1 /\ stream["_dls"].state = "Playing"

\* C2: once stop() has returned, every owned child (the input crossfader
\* included) is Stopped.
C2_StopStopsEveryChild ==
    StoppedLast => \A n \in DOMAIN stream : stream[n].state = "Stopped"

\* C3: a node is not started twice without a stop in between (each child's
\* start count stays at most 1), and after stop() the node and the children
\* it stops are in the one Stopped state, however often stop() was called.
C3_StartStopIdempotent ==
    /\ \A n \in DOMAIN stream : stream[n].starts <= 1
    /\ StoppedLast =>
          \A n \in DOMAIN stream \ {"_in_fader"} : stream[n] = StoppedStream

\* C4: the input getter and the crossfader's target are the input last given;
\* the crossfader got the fade time given with it, and 0.05 s when none was
\* given (setInput(x) and the input property).
C4_InputThroughFader ==
    /\ _in_fader.input = _input
    /\ given.input = <<>> => _input = given.init[1]
    /\ given.input # <<>> =>
          /\ _input = given.input[1]
          /\ _in_fader.fadetime =
                IF Len(given.input) >= 2 THEN given.input[2] ELSE DefaultFadetime
          /\ _in_fader.t <= _in_fader.fadetime

\* C4 witness: a RingMod whose input was replaced by assigning the property,
\* the crossfade from the old input under way.
C4_Witness ==
    /\ cls = "RingMod" /\ given.init[1] = Noise /\ given.input = <<Src>>
    /\ _input = Src /\ _in_fader.old = Noise /\ _in_fader.fadetime = DefaultFadetime

\* C5: a step of RingMod.setFreq(x) sets the freq attribute to x and every
\* oscillator channel's frequency from x, and changes nothing else: not the
\* input, the crossfader, mul, add, the output node or any lifecycle state.
C5_SetFreqOnlyFreq ==
    [][\A x \in FreqArgs :
          RingModSetFreq(x) =>
             /\ _freq' = x
             /\ Len(_mod'.chnls) = Len(_mod.chnls)
             /\ \A i \in 1..Len(_mod.chnls) :
                   /\ _mod'.chnls[i].freq = wrap(convertArgsToLists(x), i - 1)
                   /\ _mod'.chnls[i].mul = _mod.chnls[i].mul
             /\ UNCHANGED <<_input, _in_fader, _mul, _add, _ring, stream, calls>>]_vars

\* C5 witness: the frequency replaced by a list during a crossfade of a
\* stopped RingMod.
C5_Witness ==
    /\ cls = "RingMod" /\ given.freq = <<List(<<800, 1000>>)>>
    /\ _freq = List(<<800, 1000>>)
    /\ _in_fader.old # NoInput /\ _in_fader.t < _in_fader.fadetime
    /\ stream["_mod"].state = "Stopped"

\* C6: a Flanger constructed without a feedback argument has the documented
\* feedback, 0.25, in the getter and in the delay line.
C6_DocumentedDefaultFeedback ==
    (cls = "Flanger" /\ Len(given.init) < 4 /\ given.feedback = <<>>) =>
        _feedback = DocumentedFeedback /\ _dls.feedback = DocumentedFeedback

Depth01(b) == b.depth >= 0 /\ b.depth <= 100

\* C7 as stated: the delay requested is depth*0.005*(sine+1)/2 + 0.005, so it
\* lies between 5 ms and 5 + depth*5 ms.
C7_DelayAsStated ==
    (cls = "Flanger" /\ blk.pulled /\ Depth01(blk)) =>
        /\ blk.delay = (blk.modamp * (blk.sine + 100)) \div 200 + 5000000
        /\ blk.delay >= 5000000
        /\ blk.delay <= 5000000 + blk.depth * 50000

\* C7 as amended: the delay requested is depth*0.005*sine + 0.005, so it lies
\* between 5 - depth*5 ms and 5 + depth*5 ms, never below 0, and is the
\* constant 5 ms when depth = 0.
C7_DelaySweep ==
    (cls = "Flanger" /\ blk.pulled /\ Depth01(blk)) =>
        /\ blk.modamp = blk.depth * 50000
        /\ blk.delay = (blk.modamp * blk.sine) \div 100 + 5000000
        /\ blk.delay >= 5000000 - blk.depth * 50000
        /\ blk.delay <= 5000000 + blk.depth * 50000
        /\ blk.delay >= 0
        /\ blk.depth = 0 => blk.delay = 5000000

\* C7 witness: full depth at the trough of the LFO: no delay at all.
C7_Witness ==
    /\ cls = "Flanger" /\ blk.pulled /\ blk.depth = 100 /\ blk.sine = -100
    /\ blk.delay = 0

CtorInput == given.init[1]
CtorFreq == convertArgsToLists(given.init[2])
CtorMul == convertArgsToLists(given.init[3])
CtorAdd == convertArgsToLists(given.init[4])

OscillatorBroadcast ==
    LET C == CtorInput.nchnls
        k == Len(convertArgsToLists(_freq))
    IN  /\ Len(_mod.chnls) = Max(C, Len(CtorFreq))
        /\ \A i \in 0..(Len(_mod.chnls) - 1) :
              /\ _mod.chnls[i + 1].freq = convertArgsToLists(_freq)[(i % k) + 1]
              /\ _mod.chnls[i + 1].mul = (i % C) + 1

\* C8 as stated: the oscillator and the node's output both have max(C,k)
\* channels, channel i using freq element i mod k and input channel i mod C.
C8_BroadcastAsStated ==
    /\ OscillatorBroadcast
    /\ Len(_ring.chnls) = Max(CtorInput.nchnls, Len(CtorFreq))

\* C8 as amended: the oscillator has max(C,k) channels, channel i using freq
\* element i mod k and input channel i mod C; the node's output has
\* max(C, k, len(mul), len(add)) channels, which is max(C,k) when mul and add
\* have no more elements than that.
C8_Broadcast ==
    LET n == Max(CtorInput.nchnls, Len(CtorFreq))
    IN  /\ OscillatorBroadcast
        /\ Len(_ring.chnls) = Max(n, Max(Len(CtorMul), Len(CtorAdd)))
        /\ (Len(CtorMul) <= n /\ Len(CtorAdd) <= n) => Len(_ring.chnls) = n
        /\ \A i \in 0..(Len(_ring.chnls) - 1) :
              _ring.chnls[i + 1].value = (i % Len(_mod.chnls)) + 1

\* C8 witness: a mono input with freq=[800,1000], then freq=[1000,800]: two
\* oscillators, both on input channel 1, and a two-channel output.
C8_Witness ==
    /\ CtorInput.nchnls = 1 /\ given.init[2] = List(<<800, 1000>>)
    /\ given.freq = <<List(<<1000, 800>>)>> /\ Len(CtorMul) = 1 /\ Len(CtorAdd) = 1
    /\ Len(_mod.chnls) = 2 /\ _mod.chnls[2].freq = 800 /\ _mod.chnls[2].mul = 1
    /\ Len(_ring.chnls) = 2

\* C9: at no moment does the parameter attribute of the node differ from the
\* value held by the sub-node that implements it.
C9_WriteAtomic ==
    /\ cls = "Flanger" =>
          /\ _modamp.value = _depth
          /\ _mod.freq = _lfofreq
          /\ _dls.feedback = _feedback
    /\ cls = "RingMod" =>
          \A i \in 1..Len(_mod.chnls) :
              _mod.chnls[i].freq = wrap(convertArgsToLists(_freq), i - 1)

\* C10: each Flanger getter returns the value most recently given for its
\* parameter (by the constructor or its setter) and the sub-node holds the
\* same value; nothing else is wired differently from construction.
C10_FlangerMirror ==
    cls = "Flanger" =>
        /\ given.depth # <<>> => _depth = given.depth[1]
        /\ given.lfofreq # <<>> => _lfofreq = given.lfofreq[1]
        /\ given.feedback # <<>> => _feedback = given.feedback[1]
        /\ _modamp = FlangerModamp(_depth)
        /\ _mod = FlangerMod(_lfofreq)
        /\ _dls = FlangerDls(_feedback)

\* C10 witness: every parameter replaced after construction, the Flanger
\* then stopped.
C10_Witness ==
    /\ cls = "Flanger" /\ given.init = <<Src, 100, 10>>
    /\ given.depth = <<0>> /\ given.lfofreq = <<20>> /\ given.feedback = <<25>>
    /\ _depth = 0 /\ _lfofreq = 20 /\ _feedback = 25
    /\ StoppedLast

====
